---- MODULE Spec2Model ----
(***************************************************************************)
(* Data-access layer of the messenger backend: the three Cassandra tables, *)
(* the conversation identity resolver, the message writer and the          *)
(* paginated readers of app/models/cassandra_models.py, as a state machine *)
(* whose steps are the storage statements the code issues.                 *)
(***************************************************************************)
EXTENDS Integers, Sequences, FiniteSets, TLC

\* ---------------------------------------------------------------- bounds
MaxUser == 2      \* user ids are 1..MaxUser
MaxCalls == 2     \* writer and resolver calls in one behaviour, each with a frame
MaxTime == 2      \* the wall clock runs over 1..MaxTime
MaxRnd == 1       \* random low bits of a time uuid are 0..MaxRnd
MaxPage == 2      \* page sizes are 1..MaxPage
MaxFail == 1      \* storage statements that fail in one behaviour
MaxResolves == 3  \* resolver calls in a behaviour of the resolver alone
MaxSends == 2     \* send_message requests in one behaviour
MaxReads == 1     \* read requests to the controllers in one behaviour
MaxPageNo == 2    \* page numbers of a request are 1..MaxPageNo
MaxConversation == 1  \* conversation ids a request names are 1..MaxConversation
Replicas == 3     \* replicas of a row in the store the controllers are run on

\* ------------------------------------------------------ program constants
SnippetCap == 200 \* content[:200]
max_retries == 10 \* CassandraClient.connect
delay == 5        \* seconds, CassandraClient.connect
PAGE_SIZE == 20   \* the default limit of the controllers
None == 0         \* Python's None, for ids and times

Users == 1..MaxUser
Procs == 1..MaxCalls
Resolvers == 1..MaxResolves
RndSpace == MaxRnd + 1
NoPagingState == << >>

ShortContent == <<1, 2>>
LongContent == [i \in 1..(SnippetCap + 1) |-> 1 + (i % 2)]
Contents == {ShortContent, LongContent}

VARIABLES
    conversation_by_users,     \* rows (user_a_id, user_b_id, conversation_id)
    messages_by_conversation,  \* rows of the message partitions
    conversations_by_user,     \* rows of the per-user conversation index
    now,                       \* datetime.utcnow(), in ticks since the uuid epoch
    uuid4s,                    \* how many uuid.uuid4() values were drawn
    failures,                  \* storage statements that failed so far
    proc,                      \* the frame of each writer or resolver call
    overlap,                   \* pair keys for which two resolver runs overlapped
    scan,                      \* the frame of a reader and its cursor chain
    client,                    \* the CassandraClient instance
    http,                      \* the frame of a controller request
    ctl_messages_by_conversation,  \* the message table, MessageController's columns
    ctl_conversations_by_user,     \* the index table, MessageController's columns
    lagging                    \* message keys not yet on every replica

\* The state of the client and of the controllers.
api == <<client, http, ctl_messages_by_conversation, ctl_conversations_by_user,
         lagging>>

vars == <<conversation_by_users, messages_by_conversation, conversations_by_user,
          now, uuid4s, failures, proc, overlap, scan, api>>

tables == <<conversation_by_users, messages_by_conversation, conversations_by_user>>

\* ------------------------------------------------------------- pure parts
Min(a, b) == IF a <= b THEN a ELSE b
Max(a, b) == IF a >= b THEN a ELSE b

\* Variant: the pair as the caller gave it.
ConvKeyUnordered(user1_id, user2_id) == <<user1_id, user2_id>>
\* user_a_id = min(user1_id, user2_id); user_b_id = max(user1_id, user2_id)
ConvKey(user1_id, user2_id) == <<Min(user1_id, user2_id), Max(user1_id, user2_id)>>

Keys == {k \in Users \X Users : k[1] < k[2]}

\* uuid_from_time(t): the timestamp in the high bits, random bits below it.
\* Cassandra orders timeuuid values by timestamp first, then by the rest.
UuidFromTime(ts, lo) == ts * RndSpace + lo
UuidTime(t) == t \div RndSpace

\* uuid.UUID(bytes=...).time counts 100 ns steps (ten per clock tick);
\* datetime.utcfromtimestamp(time / 1e9) reads the count as nanoseconds.
CreatedAt(t) == (UuidTime(t) * 10) \div 1000

\* Variant: the content uncut.
SnippetWhole(content) == content
\* content[:200]
Snippet(content) == SubSeq(content, 1, Min(Len(content), SnippetCap))

\* --------------------------------------------------------------- the store
\* conversation_by_users: one row per (user_a_id, user_b_id)
SameConvByUsersKey(r, s) ==
    r.user_a_id = s.user_a_id /\ r.user_b_id = s.user_b_id

\* Variant: an idempotency key of (conversation, sender, receiver, content).
SameMessageKeyDedup(r, s) ==
    /\ r.conversation_id = s.conversation_id
    /\ r.sender_id = s.sender_id
    /\ r.receiver_id = s.receiver_id
    /\ r.content = s.content
\* messages_by_conversation: PRIMARY KEY ((conversation_id), created_at, id)
SameMessageKey(r, s) ==
    /\ r.conversation_id = s.conversation_id
    /\ r.message_time = s.message_time
    /\ r.message_id = s.message_id

\* Variant: a key of (user_id, conversation_id) alone.
SameUserConvKeyNoTime(r, s) ==
    r.user_id = s.user_id /\ r.conversation_id = s.conversation_id
\* conversations_by_user: PRIMARY KEY ((user_id), last_message_at, conversation_id)
SameUserConvKey(r, s) ==
    /\ r.user_id = s.user_id
    /\ r.last_message_time = s.last_message_time
    /\ r.conversation_id = s.conversation_id

\* A CQL INSERT is an upsert: it replaces the row with the same primary key.
\* Variant: an insert adds its row and replaces none.
InsertConversationByUsersAppend(table, row) == table \cup {row}
InsertConversationByUsers(table, row) ==
    {r \in table : ~SameConvByUsersKey(r, row)} \cup {row}
\* Variant: the insert replaces the rows of its partition.
InsertMessageRowLatestOnly(table, row) ==
    {r \in table : r.conversation_id # row.conversation_id} \cup {row}
InsertMessageRow(table, row) ==
    {r \in table : ~SameMessageKey(r, row)} \cup {row}
InsertUserConversation(table, row) ==
    {r \in table : ~SameUserConvKey(r, row)} \cup {row}

\* Variant: the two key columns compared the wrong way round.
SelectConversationSwapped(key) ==
    {r \in conversation_by_users : r.user_a_id = key[2] /\ r.user_b_id = key[1]}
\* SELECT conversation_id FROM conversation_by_users WHERE ... LIMIT 1
SelectConversation(key) ==
    {r \in conversation_by_users : r.user_a_id = key[1] /\ r.user_b_id = key[2]}

\* ------------------------------------------------------------ call frames
Idle ==
    [op |-> "idle", pc |-> "idle", user1_id |-> None, user2_id |-> None,
     user_a_id |-> None, user_b_id |-> None,
     content |-> << >>, conversation_id |-> None, row_found |-> FALSE,
     inserted |-> FALSE, message_time |-> None, message_id |-> None,
     raised |-> "none", failed_at |-> "none", nstmt |-> 0, ret |-> << >>]

NoScan ==
    [op |-> "idle", pc |-> "idle", target |-> None, page_size |-> 0,
     before_timestamp |-> None, paging_state |-> NoPagingState,
     pages |-> << >>, scan_start |-> {}, failed |-> FALSE, ret |-> << >>]

\* CassandraClient.__new__: an instance that __init__ has not run on.
NewClient ==
    [pc |-> "new", initialized |-> FALSE, cluster |-> None, session |-> None,
     attempt |-> 0, sleeps |-> 0, slept |-> 0,
     closed |-> FALSE, call |-> "none", used |-> "none", raised |-> FALSE]
\* The instance after __init__ has returned; attempt is a local of connect.
\* closed: cluster.shutdown() was called on the cluster of the session; call,
\* used and raised describe the latest request-time call on the client.
ReadyClient ==
    [pc |-> "ready", initialized |-> TRUE, cluster |-> 1, session |-> 1,
     attempt |-> 0, sleeps |-> 0, slept |-> 0,
     closed |-> FALSE, call |-> "none", used |-> "none", raised |-> FALSE]

NoRequest ==
    [op |-> "idle", pc |-> "idle", layout |-> "any", sent |-> 0, reads |-> 0,
     target |-> None,
     page |-> 0, limit |-> 0, before_timestamp |-> None,
     sender_id |-> None, recipient_id |-> None, message_text |-> << >>,
     message_id |-> None, queries |-> 0, page_size |-> 0,
     partition |-> {}, visible |-> {}, status |-> 0, data |-> << >>,
     timestamp |-> None]

InResolver(f) == f.pc \in {"select", "insert_conv"}
FrameKey(f) == <<f.user_a_id, f.user_b_id>>

\* What each operation returns from its except clause.
FailureReturn(op) ==
    CASE op = "create_message" -> <<None, None, None>>
      [] op = "create_or_get_conversation" -> <<None>>
      [] OTHER -> << << >>, NoPagingState >>

\* Variant: the failure is logged and the next statement is run.
OnExceptionContinue(f, step, next) ==
    [f EXCEPT !.pc = next, !.failed_at = step, !.nstmt = @ + 1]
\* except Exception: log, and return the failure value; nothing else is run.
OnException(f, step, next) ==
    [f EXCEPT !.pc = "done", !.raised = "StorageError", !.failed_at = step,
              !.nstmt = @ + 1, !.ret = FailureReturn(f.op)]

\* The resolver returned conversation_id to its caller.
AfterResolve(f, conversation_id) ==
    IF f.op = "create_message"
    THEN [f EXCEPT !.conversation_id = conversation_id, !.pc = "generate"]
    ELSE [f EXCEPT !.conversation_id = conversation_id, !.pc = "done",
                   !.ret = <<conversation_id>>]

\* ------------------------------------------------------------------- Init
Init ==
    /\ conversation_by_users = {}
    /\ messages_by_conversation = {}
    /\ conversations_by_user = {}
    /\ now = 1
    /\ uuid4s = 0
    /\ failures = 0
    /\ proc = [p \in Procs |-> Idle]
    /\ overlap = {}
    /\ scan = NoScan
    /\ client = ReadyClient
    /\ http = NoRequest
    /\ ctl_messages_by_conversation = {}
    /\ ctl_conversations_by_user = {}
    /\ lagging = {}

\* ----------------------------------------------------- identity resolver
\* Variant: no check.
SkipSelfCheck(user1_id, user2_id) == FALSE
\* if user1_id == user2_id: raise ValueError(...)
SelfConversation(user1_id, user2_id) == user1_id = user2_id

\* _get_or_create_conversation_id, up to its first storage statement
EnterResolver(p, op, user1_id, user2_id, content) ==
    LET f == [Idle EXCEPT !.op = op, !.user1_id = user1_id,
                          !.user2_id = user2_id, !.content = content]
        key == ConvKey(user1_id, user2_id)
    IN  IF SelfConversation(user1_id, user2_id)
        THEN /\ proc' = [proc EXCEPT ![p] =
                    [f EXCEPT !.pc = "done", !.raised = "ValueError",
                              !.failed_at = "self", !.ret = FailureReturn(op)]]
             /\ overlap' = overlap
        ELSE /\ proc' = [proc EXCEPT ![p] =
                    [f EXCEPT !.user_a_id = key[1], !.user_b_id = key[2],
                              !.pc = "select"]]
             /\ overlap' = IF \E q \in DOMAIN proc \ {p} :
                                  InResolver(proc[q]) /\ FrameKey(proc[q]) = key
                           THEN overlap \cup {key}
                           ELSE overlap

\* Call number p arrives: the calls before it have arrived.
Free(p) ==
    /\ proc[p].op = "idle"
    /\ \A q \in DOMAIN proc : q < p => proc[q].op # "idle"

\* The storage statement raises: a timeout, unavailable or write failure of
\* a live session, or any statement on a session whose cluster was shut down.
StatementFails ==
    \/ /\ client.closed
       /\ UNCHANGED failures
    \/ /\ ~client.closed
       /\ failures < MaxFail
       /\ failures' = failures + 1

\* The storage statement is carried out: the session is live.
StatementRuns ==
    /\ ~client.closed
    /\ UNCHANGED failures

\* ConversationModel.create_or_get_conversation(user1_id, user2_id)
CreateOrGetConversation(p) ==
    \E user1_id \in Users, user2_id \in Users :
        /\ Free(p)
        /\ EnterResolver(p, "create_or_get_conversation", user1_id, user2_id, << >>)
        /\ UNCHANGED <<tables, now, uuid4s, failures, scan, api>>

\* MessageModel.create_message(sender_id, receiver_id, content)
CreateMessage(p) ==
    \E sender_id \in Users, receiver_id \in Users, content \in Contents :
        /\ Free(p)
        /\ EnterResolver(p, "create_message", sender_id, receiver_id, content)
        /\ UNCHANGED <<tables, now, uuid4s, failures, scan, api>>

\* session.execute(select_statement, (user_a_id, user_b_id)); row = result.one()
ResolveSelect(p) ==
    LET f == proc[p]
        key == FrameKey(f)
        rows == SelectConversation(key)
    IN  /\ f.pc = "select"
        /\ \/ /\ StatementFails
              /\ proc' = [proc EXCEPT ![p] = OnException(f, "select", "insert_conv")]
           \/ /\ rows # {}
              /\ StatementRuns
              /\ LET row == CHOOSE r \in rows : TRUE
                     g == [f EXCEPT !.row_found = TRUE, !.nstmt = @ + 1]
                 IN  proc' = [proc EXCEPT ![p] = AfterResolve(g, row.conversation_id)]
           \/ /\ rows = {}
              /\ StatementRuns
              /\ proc' = [proc EXCEPT ![p] =
                     [f EXCEPT !.pc = "insert_conv", !.nstmt = @ + 1]]
        /\ UNCHANGED <<tables, now, uuid4s, overlap, scan, api>>

\* Variant: an id computed from the pair.
DerivedConversationId(key) == key[1] * (MaxUser + 1) + key[2]
\* new_conversation_id = uuid.uuid4(): random, so unlike every id drawn before
NewConversationId(key) == uuid4s + 1

\* new_conversation_id = uuid.uuid4(); session.execute(insert_statement, ...)
ResolveInsert(p) ==
    LET f == proc[p]
        key == FrameKey(f)
        new_conversation_id == NewConversationId(key)
        row == [user_a_id |-> key[1], user_b_id |-> key[2],
                conversation_id |-> new_conversation_id]
    IN  /\ f.pc = "insert_conv"
        /\ uuid4s' = uuid4s + 1
        /\ \/ /\ StatementFails
              /\ proc' = [proc EXCEPT ![p] = OnException(f, "insert_conv", "generate")]
              /\ UNCHANGED conversation_by_users
           \/ /\ StatementRuns
              /\ conversation_by_users' =
                     InsertConversationByUsers(conversation_by_users, row)
              /\ LET g == [f EXCEPT !.inserted = TRUE, !.nstmt = @ + 1]
                 IN  proc' = [proc EXCEPT ![p] = AfterResolve(g, new_conversation_id)]
        /\ UNCHANGED <<messages_by_conversation, conversations_by_user,
                       now, overlap, scan, api>>

\* ----------------------------------------------------------- message writer
UsedTimes ==
    {m.message_time : m \in messages_by_conversation}
        \cup {proc[q].message_time : q \in Procs}

\* message_time = uuid_from_time(datetime.utcnow()); message_id = uuid.uuid4()
GenerateMessage(p) ==
    LET f == proc[p]
    IN  /\ f.pc = "generate"
        /\ \E lo \in 0..MaxRnd :
              /\ UuidFromTime(now, lo) \notin UsedTimes
              /\ proc' = [proc EXCEPT ![p] =
                     [f EXCEPT !.message_time = UuidFromTime(now, lo),
                               !.message_id = uuid4s + 1,
                               !.pc = "insert_msg"]]
        /\ uuid4s' = uuid4s + 1
        /\ UNCHANGED <<tables, now, failures, overlap, scan, api>>

MessageRow(f) ==
    [conversation_id |-> f.conversation_id, message_time |-> f.message_time,
     message_id |-> f.message_id, sender_id |-> f.user1_id,
     receiver_id |-> f.user2_id, content |-> f.content]

\* (user_id, message_time, conversation_id, other_user_id, sender_id, content[:200])
IndexRow(f, user_id, other_user_id) ==
    [user_id |-> user_id, last_message_time |-> f.message_time,
     conversation_id |-> f.conversation_id, other_user_id |-> other_user_id,
     last_message_sender_id |-> f.user1_id,
     last_message_content |-> Snippet(f.content)]

SenderRow(f) == IndexRow(f, f.user1_id, f.user2_id)
\* Variant: the receiver's row names the receiver as the other participant.
ReceiverRowUnswapped(f) == IndexRow(f, f.user2_id, f.user2_id)
ReceiverRow(f) == IndexRow(f, f.user2_id, f.user1_id)

\* session.execute(message_statement, ...)
InsertMessage(p) ==
    LET f == proc[p]
    IN  /\ f.pc = "insert_msg"
        /\ \/ /\ StatementFails
              /\ proc' = [proc EXCEPT ![p] = OnException(f, "insert_msg", "idx_sender")]
              /\ UNCHANGED messages_by_conversation
           \/ /\ StatementRuns
              /\ messages_by_conversation' =
                     InsertMessageRow(messages_by_conversation, MessageRow(f))
              /\ proc' = [proc EXCEPT ![p] =
                     [f EXCEPT !.pc = "idx_sender", !.nstmt = @ + 1]]
        /\ UNCHANGED <<conversation_by_users, conversations_by_user,
                       now, uuid4s, overlap, scan, api>>

\* "Update for sender": session.execute(conv_statement, (sender_id, ...))
UpsertSender(p) ==
    LET f == proc[p]
    IN  /\ f.pc = "idx_sender"
        /\ \/ /\ StatementFails
              /\ proc' = [proc EXCEPT ![p] = OnException(f, "idx_sender", "idx_receiver")]
              /\ UNCHANGED conversations_by_user
           \/ /\ StatementRuns
              /\ conversations_by_user' =
                     InsertUserConversation(conversations_by_user, SenderRow(f))
              /\ proc' = [proc EXCEPT ![p] =
                     [f EXCEPT !.pc = "idx_receiver", !.nstmt = @ + 1]]
        /\ UNCHANGED <<conversation_by_users, messages_by_conversation,
                       now, uuid4s, overlap, scan, api>>

\* "Update for receiver": session.execute(conv_statement, (receiver_id, ...));
\* return conversation_id, message_time, message_id
UpsertReceiver(p) ==
    LET f == proc[p]
    IN  /\ f.pc = "idx_receiver"
        /\ \/ /\ StatementFails
              /\ proc' = [proc EXCEPT ![p] = OnException(f, "idx_receiver", "done")]
              /\ UNCHANGED conversations_by_user
           \/ /\ StatementRuns
              /\ conversations_by_user' =
                     InsertUserConversation(conversations_by_user, ReceiverRow(f))
              /\ proc' = [proc EXCEPT ![p] =
                     [f EXCEPT !.pc = "done", !.nstmt = @ + 1,
                               !.ret = <<f.conversation_id, f.message_time,
                                         f.message_id>>]]
        /\ UNCHANGED <<conversation_by_users, messages_by_conversation,
                       now, uuid4s, overlap, scan, api>>

\* Wall-clock time passes.
Tick ==
    /\ now < MaxTime
    /\ now' = now + 1
    /\ UNCHANGED <<tables, uuid4s, failures, proc, overlap, scan, api>>

Next ==
    \/ \E p \in Procs : CreateOrGetConversation(p)
    \/ \E p \in Procs : CreateMessage(p)
    \/ \E p \in Procs : ResolveSelect(p)
    \/ \E p \in Procs : ResolveInsert(p)
    \/ \E p \in Procs : GenerateMessage(p)
    \/ \E p \in Procs : InsertMessage(p)
    \/ \E p \in Procs : UpsertSender(p)
    \/ \E p \in Procs : UpsertReceiver(p)
    \/ Tick

Spec == Init /\ [][Next]_vars

\* ------------------------------------------------------ the resolver alone
\* ConversationModel.create_or_get_conversation called MaxResolves times,
\* the calls running concurrently.
InitResolve ==
    /\ conversation_by_users = {}
    /\ messages_by_conversation = {}
    /\ conversations_by_user = {}
    /\ now = 1
    /\ uuid4s = 0
    /\ failures = 0
    /\ proc = [p \in Resolvers |-> Idle]
    /\ overlap = {}
    /\ scan = NoScan
    /\ client = ReadyClient
    /\ http = NoRequest
    /\ ctl_messages_by_conversation = {}
    /\ ctl_conversations_by_user = {}
    /\ lagging = {}

NextResolve ==
    \/ \E p \in Resolvers : CreateOrGetConversation(p)
    \/ \E p \in Resolvers : ResolveSelect(p)
    \/ \E p \in Resolvers : ResolveInsert(p)

SpecResolve == InitResolve /\ [][NextResolve]_vars

\* ------------------------------------------------------------ the readers
Take(rows, n) == SubSeq(rows, 1, Min(n, Len(rows)))

\* CLUSTERING ORDER BY (created_at DESC, id DESC)
MessageBefore(m, n) ==
    \/ m.message_time > n.message_time
    \/ m.message_time = n.message_time /\ m.message_id > n.message_id

\* CLUSTERING ORDER BY (last_message_at DESC), then conversation_id ascending
ConversationBefore(r, s) ==
    \/ r.last_message_time > s.last_message_time
    \/ r.last_message_time = s.last_message_time
           /\ r.conversation_id < s.conversation_id

RECURSIVE SortMessages(_)
SortMessages(rows) ==
    IF rows = {} THEN << >>
    ELSE LET first == CHOOSE m \in rows :
                          \A n \in rows \ {m} : MessageBefore(m, n)
         IN  <<first>> \o SortMessages(rows \ {first})

RECURSIVE SortConversations(_)
SortConversations(rows) ==
    IF rows = {} THEN << >>
    ELSE LET first == CHOOSE r \in rows :
                          \A s \in rows \ {r} : ConversationBefore(r, s)
         IN  <<first>> \o SortConversations(rows \ {first})

\* ... FROM messages_by_conversation WHERE conversation_id = %s
MessagePartition(conversation_id) ==
    {m \in messages_by_conversation : m.conversation_id = conversation_id}

\* ... WHERE conversation_id = %s AND message_time < %s
MessagesBefore(conversation_id, before_timeuuid) ==
    {m \in MessagePartition(conversation_id) : m.message_time < before_timeuuid}

\* ... FROM conversations_by_user WHERE user_id = %s
UserPartition(user_id) ==
    {r \in conversations_by_user : r.user_id = user_id}

\* The paging state names the last row the previous page returned.
MessageCursor(m) == <<m.message_time, m.message_id>>
ConversationCursor(r) == <<r.last_message_time, r.conversation_id>>

\* Variant: the scan restarts at the head and leaves out the cursor's row.
AfterMessageCursorFromHead(m, paging_state) ==
    paging_state = NoPagingState \/ <<m.message_time, m.message_id>> # paging_state
\* Variant: the scan resumes at the cursor's row, not after it.
AfterMessageCursorInclusive(m, paging_state) ==
    paging_state = NoPagingState \/ m.message_time <= paging_state[1]
AfterMessageCursor(m, paging_state) ==
    \/ paging_state = NoPagingState
    \/ m.message_time < paging_state[1]
    \/ m.message_time = paging_state[1] /\ m.message_id < paging_state[2]

\* Variant: the scan resumes at the cursor's row, not after it.
AfterConversationCursorInclusive(r, paging_state) ==
    paging_state = NoPagingState \/ r.last_message_time <= paging_state[1]
AfterConversationCursor(r, paging_state) ==
    \/ paging_state = NoPagingState
    \/ r.last_message_time < paging_state[1]
    \/ r.last_message_time = paging_state[1] /\ r.conversation_id > paging_state[2]

\* results.paging_state after a page of fetch_size rows was cut from `rest`:
\* None when the page came back short, the cursor when rows are left, and
\* either one when the page is full and ends the partition.
NextPagingStates(rest, fetch_size, cursor) ==
    IF Len(rest) < fetch_size THEN {NoPagingState}
    ELSE IF Len(rest) > fetch_size THEN {cursor}
    ELSE {NoPagingState, cursor}

\* msg['created_at'] = ...; msg['id'] = msg.get('message_id')
FormatMessage(msg) ==
    [conversation_id |-> msg.conversation_id, message_time |-> msg.message_time,
     message_id |-> msg.message_id, sender_id |-> msg.sender_id,
     receiver_id |-> msg.receiver_id, content |-> msg.content,
     created_at |-> CreatedAt(msg.message_time), id |-> msg.message_id]

\* formatted_convos.append({...})
FormatConversation(user_id, convo) ==
    [id |-> convo.conversation_id, user1_id |-> user_id,
     user2_id |-> convo.other_user_id,
     last_message_at |-> CreatedAt(convo.last_message_time),
     last_message_content |-> convo.last_message_content]

FormatMessages(rows) == [i \in 1..Len(rows) |-> FormatMessage(rows[i])]
FormatConversations(user_id, rows) ==
    [i \in 1..Len(rows) |-> FormatConversation(user_id, rows[i])]

KnownConversations ==
    {r.conversation_id : r \in conversation_by_users}
        \cup {m.conversation_id : m \in messages_by_conversation}

\* The call is the first of a chain, or it passes the cursor of the page before.
Calls(op, target, page_size, before_timestamp) ==
    \/ scan.op = "idle"
    \/ /\ scan.op = op /\ scan.pc = "page"
       /\ scan.target = target /\ scan.page_size = page_size
       /\ scan.before_timestamp = before_timestamp

Called(op, target, page_size, before_timestamp, partition) ==
    IF scan.op = "idle"
    THEN [scan EXCEPT !.op = op, !.target = target, !.page_size = page_size,
                      !.before_timestamp = before_timestamp,
                      !.scan_start = partition]
    ELSE scan

\* except Exception: log; return [], None
ReadRaises(f) ==
    [f EXCEPT !.pc = "done", !.failed = TRUE, !.paging_state = NoPagingState,
              !.pages = Append(@, << >>), !.ret = FailureReturn(f.op)]

\* return rows, next_paging_state
ReadReturns(f, rows, next_paging_state) ==
    [f EXCEPT !.pc = IF next_paging_state = NoPagingState THEN "done" ELSE "page",
              !.paging_state = next_paging_state,
              !.pages = Append(@, rows), !.ret = <<rows, next_paging_state>>]

\* MessageModel.get_conversation_messages(conversation_id, page_size, paging_state)
GetConversationMessages ==
    \E conversation_id \in KnownConversations, page_size \in 1..MaxPage :
        LET f == Called("get_conversation_messages", conversation_id, page_size,
                        None, MessagePartition(conversation_id))
            rest == SelectSeq(SortMessages(MessagePartition(conversation_id)),
                              LAMBDA m : AfterMessageCursor(m, f.paging_state))
            messages == Take(rest, page_size)
        IN  /\ Calls("get_conversation_messages", conversation_id, page_size, None)
            /\ \/ /\ StatementFails
                  /\ scan' = ReadRaises(f)
               \/ /\ StatementRuns
                  /\ \E next_paging_state \in
                         NextPagingStates(rest, page_size,
                             IF messages = << >> THEN NoPagingState
                             ELSE MessageCursor(messages[Len(messages)])) :
                         scan' = ReadReturns(f, FormatMessages(messages),
                                             next_paging_state)
            /\ UNCHANGED <<tables, now, uuid4s, proc, overlap, api>>

\* MessageModel.get_messages_before_timestamp(conversation_id, before_timestamp,
\*                                            page_size, paging_state)
GetMessagesBeforeTimestamp ==
    \E conversation_id \in KnownConversations, page_size \in 1..MaxPage,
       before_timestamp \in 1..MaxTime, lo \in 0..MaxRnd :
        LET f == Called("get_messages_before_timestamp", conversation_id,
                        page_size, before_timestamp,
                        MessagePartition(conversation_id))
            before_timeuuid == UuidFromTime(before_timestamp, lo)
            rest == SelectSeq(
                        SortMessages(MessagesBefore(conversation_id, before_timeuuid)),
                        LAMBDA m : AfterMessageCursor(m, f.paging_state))
            messages == Take(rest, page_size)
        IN  /\ Calls("get_messages_before_timestamp", conversation_id, page_size,
                     before_timestamp)
            /\ \/ /\ StatementFails
                  /\ scan' = ReadRaises(f)
               \/ /\ StatementRuns
                  /\ \E next_paging_state \in
                         NextPagingStates(rest, page_size,
                             IF messages = << >> THEN NoPagingState
                             ELSE MessageCursor(messages[Len(messages)])) :
                         scan' = ReadReturns(f, FormatMessages(messages),
                                             next_paging_state)
            /\ UNCHANGED <<tables, now, uuid4s, proc, overlap, api>>

\* ConversationModel.get_user_conversations(user_id, page_size, paging_state)
GetUserConversations ==
    \E user_id \in Users, page_size \in 1..MaxPage :
        LET f == Called("get_user_conversations", user_id, page_size, None,
                        UserPartition(user_id))
            rest == SelectSeq(SortConversations(UserPartition(user_id)),
                              LAMBDA r : AfterConversationCursor(r, f.paging_state))
            conversations == Take(rest, page_size)
        IN  /\ Calls("get_user_conversations", user_id, page_size, None)
            /\ \/ /\ StatementFails
                  /\ scan' = ReadRaises(f)
               \/ /\ StatementRuns
                  /\ \E next_paging_state \in
                         NextPagingStates(rest, page_size,
                             IF conversations = << >> THEN NoPagingState
                             ELSE ConversationCursor(conversations[Len(conversations)])) :
                         scan' = ReadReturns(f,
                                     FormatConversations(user_id, conversations),
                                     next_paging_state)
            /\ UNCHANGED <<tables, now, uuid4s, proc, overlap, api>>

\* Requests are served one at a time: a call arrives when the calls before
\* it have returned.
Sequential(p) == \A q \in Procs : q < p => proc[q].pc = "done"

NextRead ==
    \/ \E p \in Procs : Sequential(p) /\ CreateOrGetConversation(p)
    \/ \E p \in Procs : Sequential(p) /\ CreateMessage(p)
    \/ \E p \in Procs : ResolveSelect(p)
    \/ \E p \in Procs : ResolveInsert(p)
    \/ \E p \in Procs : GenerateMessage(p)
    \/ \E p \in Procs : InsertMessage(p)
    \/ \E p \in Procs : UpsertSender(p)
    \/ \E p \in Procs : UpsertReceiver(p)
    \/ GetConversationMessages
    \/ GetMessagesBeforeTimestamp
    \/ GetUserConversations
    \/ Tick

SpecRead == Init /\ [][NextRead]_vars

\* -------------------------------------------------------------- the client
\* CassandraClient.__init__: self.cluster = None; self.session = None;
\* self.connect()
Construct ==
    /\ client.pc = "new"
    /\ ~client.initialized
    /\ client' = [client EXCEPT !.pc = "connecting", !.cluster = None,
                                !.session = None]
    /\ UNCHANGED <<tables, now, uuid4s, failures, proc, overlap, scan, http,
                   ctl_messages_by_conversation, ctl_conversations_by_user,
                   lagging>>

\* Variant: no attempt is the last one.
NeverLastAttempt(attempt) == FALSE
\* if attempt == max_retries: raise
LastAttempt(attempt) == attempt = max_retries

\* One round of "for attempt in range(1, max_retries + 1)": the try block,
\* and the except clause up to its raise or its sleep.
ConnectAttempt ==
    /\ client.pc = "connecting"
    /\ client.attempt < max_retries
    /\ LET attempt == client.attempt + 1
       IN  \/ client' = ReadyClient
           \/ client' = [client EXCEPT !.attempt = attempt, !.cluster = 1,
                                       !.pc = IF LastAttempt(attempt)
                                              THEN "raised" ELSE "sleeping"]
    /\ UNCHANGED <<tables, now, uuid4s, failures, proc, overlap, scan, http,
                   ctl_messages_by_conversation, ctl_conversations_by_user,
                   lagging>>

\* time.sleep(delay), and the loop goes on; when the range is used up the
\* for statement ends and connect returns.
ConnectSleep ==
    /\ client.pc = "sleeping"
    /\ client' = IF client.attempt < max_retries
                 THEN [client EXCEPT !.sleeps = @ + 1, !.slept = @ + delay,
                                     !.pc = "connecting"]
                 ELSE [ReadyClient EXCEPT !.session = None]
    /\ UNCHANGED <<tables, now, uuid4s, failures, proc, overlap, scan, http,
                   ctl_messages_by_conversation, ctl_conversations_by_user,
                   lagging>>

\* The process serves requests once the module-level instance was built.
Serving == client.pc = "ready" /\ client.initialized

\* Variant: close() also forgets the session.
ShutdownAndForget(c) == [c EXCEPT !.closed = TRUE, !.session = None]
\* self.cluster.shutdown(): the session of the cluster is shut down with it;
\* self.session and self.cluster keep their values.
Shutdown(c) == [c EXCEPT !.closed = TRUE]

\* CassandraClient.close(): if self.cluster: self.cluster.shutdown()
Close ==
    /\ Serving
    /\ client.cluster # None
    /\ client' = Shutdown(client)
    /\ UNCHANGED <<tables, now, uuid4s, failures, proc, overlap, scan, http,
                   ctl_messages_by_conversation, ctl_conversations_by_user,
                   lagging>>

\* "if not self.session": a Session object is true, None is not.
NoSession(c) == c.session = None

\* "if not self.session: self.connect()" taken: the call runs the loop of
\* connect before anything else.
Reconnect(c, call) ==
    [c EXCEPT !.pc = "connecting", !.attempt = 0, !.sleeps = 0, !.slept = 0,
              !.call = call, !.used = "none", !.raised = FALSE]

\* The call goes on with self.session as it is.
UseSession(c, call, raised) ==
    [c EXCEPT !.call = call, !.raised = raised,
              !.used = IF c.closed THEN "shutdown" ELSE "live"]

\* CassandraClient.get_session(): if not self.session: self.connect();
\* return self.session
GetSession ==
    /\ Serving
    /\ client' = IF NoSession(client) THEN Reconnect(client, "get_session")
                 ELSE UseSession(client, "get_session", FALSE)
    /\ UNCHANGED <<tables, now, uuid4s, failures, proc, overlap, scan, http,
                   ctl_messages_by_conversation, ctl_conversations_by_user,
                   lagging>>

\* CassandraClient.execute(query, params): one self.session.execute(...);
\* except Exception: log and raise
Execute ==
    /\ Serving
    /\ IF NoSession(client)
       THEN /\ client' = Reconnect(client, "execute")
            /\ UNCHANGED failures
       ELSE \/ /\ StatementFails
               /\ client' = UseSession(client, "execute", TRUE)
            \/ /\ StatementRuns
               /\ client' = UseSession(client, "execute", FALSE)
    /\ UNCHANGED <<tables, now, uuid4s, proc, overlap, scan, http,
                   ctl_messages_by_conversation, ctl_conversations_by_user,
                   lagging>>

\* CassandraClient.execute_async(query, params): the future is returned; on a
\* session that was shut down the call raises or returns a failed future.
ExecuteAsync ==
    /\ Serving
    /\ client' \in
           IF NoSession(client) THEN {Reconnect(client, "execute_async")}
           ELSE {UseSession(client, "execute_async", raised) :
                     raised \in IF client.closed THEN BOOLEAN ELSE {FALSE}}
    /\ UNCHANGED <<tables, now, uuid4s, failures, proc, overlap, scan, http,
                   ctl_messages_by_conversation, ctl_conversations_by_user,
                   lagging>>

\* --------------------------------------------------------- the controllers
WRITE_CONSISTENCY == "LOCAL_QUORUM"
READ_CONSISTENCY == "LOCAL_QUORUM"
\* session.execute(query, params) with a query string: no level is named and
\* the statement runs at the level the session has by default.
DefaultConsistency == "LOCAL_ONE"

Quorum == (Replicas \div 2) + 1
\* The replicas that have answered when a statement of the level returns.
Asked(level) == IF level = "LOCAL_QUORUM" THEN Quorum ELSE 1

ConversationIds == 1..MaxConversation
PageNos == 1..MaxPageNo
Limits == (-1)..MaxPage
Texts == {ShortContent}

\* messages_by_conversation as MessageController names it: partition key
\* conversation_id, clustering key message_id (a time uuid), newest first.
SameCtlMessageKey(r, s) ==
    r.conversation_id = s.conversation_id /\ r.message_id = s.message_id
InsertCtlMessage(table, row) ==
    {r \in table : ~SameCtlMessageKey(r, row)} \cup {row}

\* conversations_by_user as MessageController names it.
SameCtlUserConvKey(r, s) ==
    /\ r.user_id = s.user_id
    /\ r.last_message_timestamp = s.last_message_timestamp
    /\ r.conversation_id = s.conversation_id
InsertCtlUserConversation(table, row) ==
    {r \in table : ~SameCtlUserConvKey(r, row)} \cup {row}

CtlMessageBefore(m, n) == m.message_id > n.message_id

RECURSIVE SortCtlMessages(_)
SortCtlMessages(rows) ==
    IF rows = {} THEN << >>
    ELSE LET first == CHOOSE m \in rows :
                          \A n \in rows \ {m} : CtlMessageBefore(m, n)
         IN  <<first>> \o SortCtlMessages(rows \ {first})

\* ... FROM messages_by_conversation WHERE conversation_id = %s
CtlPartition(conversation_id) ==
    {m \in ctl_messages_by_conversation : m.conversation_id = conversation_id}

\* A read that asks `Asked(level)` replicas can miss a row that so few
\* replicas hold that none of those asked has it.
MayMiss(m, level) ==
    \E l \in lagging :
        /\ l.conversation_id = m.conversation_id
        /\ l.message_id = m.message_id
        /\ l.held + Asked(level) <= Replicas
VisibleSets(rows, level) ==
    {rows \ missed : missed \in SUBSET {m \in rows : MayMiss(m, level)}}

\* list(rows)[offset:]
Slice(rows, offset) ==
    IF offset >= 0 THEN SubSeq(rows, offset + 1, Len(rows))
    ELSE SubSeq(rows, Max(Len(rows) + offset, 0) + 1, Len(rows))

\* MessageResponse(conversation_id=row.conversation_id, ...)
MessageResponse(row) ==
    [conversation_id |-> row.conversation_id, message_id |-> row.message_id,
     sender_id |-> row.sender_id, recipient_id |-> row.recipient_id,
     message_text |-> row.message_text, timestamp |-> row.timestamp]
MessageResponses(rows) == [i \in 1..Len(rows) |-> MessageResponse(rows[i])]

\* The tables have one layout, the one cassandra_models.py names or the one
\* message_controller.py names: the statements of the other fail on it.
LayoutOf(op) ==
    IF op \in {"send_message", "get_conversation_messages",
               "get_messages_before_timestamp"}
    THEN "controller" ELSE "models"
ModelsLayout == http.layout # "controller"
ControllerLayout ==
    http.layout # "models" /\ \A p \in Procs : proc[p].op = "idle"

\* Requests are served one at a time.
Arrives(op) ==
    /\ Serving
    /\ http.pc \in {"idle", "done"}
    /\ \A p \in Procs : proc[p].pc \in {"idle", "done"}
    /\ IF LayoutOf(op) = "models" THEN ModelsLayout ELSE ControllerLayout
    /\ IF op = "send_message" THEN http.sent < MaxSends
       ELSE http.reads < MaxReads

Request(op, target, page, limit) ==
    [NoRequest EXCEPT !.op = op, !.pc = "done", !.layout = LayoutOf(op),
                      !.sent = http.sent,
                      !.reads = IF op = "send_message" THEN http.reads
                                ELSE http.reads + 1,
                      !.target = target, !.page = page, !.limit = limit]

\* raise HTTPException(status_code=...)
Raise(f, status) == [f EXCEPT !.pc = "done", !.status = status, !.data = << >>]
\* return ...Response(...)
Respond(f, data) == [f EXCEPT !.pc = "done", !.status = 200, !.data = data]

\* MessageController.send_message, up to its first storage statement:
\* message_id = uuid_from_time(datetime.utcnow())
SendMessage ==
    \E conversation_id \in ConversationIds, sender_id \in Users,
       recipient_id \in Users, message_text \in Texts, lo \in 0..MaxRnd :
        /\ Arrives("send_message")
        /\ UuidFromTime(now, lo) \notin
               {m.message_id : m \in ctl_messages_by_conversation}
        /\ http' = [Request("send_message", conversation_id, 0, 0) EXCEPT
                        !.pc = "insert_message", !.sent = http.sent + 1,
                        !.sender_id = sender_id,
                        !.recipient_id = recipient_id,
                        !.message_text = message_text,
                        !.message_id = UuidFromTime(now, lo)]
        /\ UNCHANGED <<tables, now, uuid4s, failures, proc, overlap, scan,
                       client, ctl_messages_by_conversation,
                       ctl_conversations_by_user, lagging>>

\* session.execute(insert_message, (...)), timestamp = toTimestamp(now())
SendInsertMessage ==
    LET row == [conversation_id |-> http.target, message_id |-> http.message_id,
                sender_id |-> http.sender_id, recipient_id |-> http.recipient_id,
                message_text |-> http.message_text, timestamp |-> now]
        held == Asked(DefaultConsistency)
    IN  /\ http.op = "send_message" /\ http.pc = "insert_message"
        /\ \/ /\ StatementFails
              /\ http' = Raise([http EXCEPT !.queries = @ + 1], 500)
              /\ UNCHANGED <<ctl_messages_by_conversation, lagging>>
           \/ /\ StatementRuns
              /\ ctl_messages_by_conversation' =
                     InsertCtlMessage(ctl_messages_by_conversation, row)
              /\ lagging' =
                     IF held < Replicas
                     THEN lagging \cup {[conversation_id |-> row.conversation_id,
                                         message_id |-> row.message_id,
                                         held |-> held]}
                     ELSE lagging
              /\ http' = [http EXCEPT !.pc = "update_sender", !.queries = @ + 1]
        /\ UNCHANGED <<tables, now, uuid4s, proc, overlap, scan, client,
                       ctl_conversations_by_user>>

CtlIndexRow(user_id, participant_id) ==
    [user_id |-> user_id, last_message_timestamp |-> now,
     conversation_id |-> http.target, participant_id |-> participant_id]

\* session.execute(update_conversations, (sender_id, conversation_id,
\* recipient_id))
SendUpdateSender ==
    /\ http.op = "send_message" /\ http.pc = "update_sender"
    /\ \/ /\ StatementFails
          /\ http' = Raise([http EXCEPT !.queries = @ + 1], 500)
          /\ UNCHANGED ctl_conversations_by_user
       \/ /\ StatementRuns
          /\ ctl_conversations_by_user' =
                 InsertCtlUserConversation(ctl_conversations_by_user,
                     CtlIndexRow(http.sender_id, http.recipient_id))
          /\ http' = [http EXCEPT !.pc = "update_recipient", !.queries = @ + 1]
    /\ UNCHANGED <<tables, now, uuid4s, proc, overlap, scan, client,
                   ctl_messages_by_conversation, lagging>>

\* session.execute(update_conversations, (recipient_id, conversation_id,
\* sender_id)); return MessageResponse(..., timestamp=datetime.utcnow())
SendUpdateRecipient ==
    /\ http.op = "send_message" /\ http.pc = "update_recipient"
    /\ \/ /\ StatementFails
          /\ http' = Raise([http EXCEPT !.queries = @ + 1], 500)
          /\ UNCHANGED ctl_conversations_by_user
       \/ /\ StatementRuns
          /\ ctl_conversations_by_user' =
                 InsertCtlUserConversation(ctl_conversations_by_user,
                     CtlIndexRow(http.recipient_id, http.sender_id))
          /\ http' = Respond([http EXCEPT !.queries = @ + 1, !.timestamp = now],
                     <<[conversation_id |-> http.target,
                        message_id |-> http.message_id,
                        sender_id |-> http.sender_id,
                        recipient_id |-> http.recipient_id,
                        message_text |-> http.message_text,
                        timestamp |-> now]>>)
    /\ UNCHANGED <<tables, now, uuid4s, proc, overlap, scan, client,
                   ctl_messages_by_conversation, lagging>>

\* The row reaches the replicas that did not have it.
Propagate ==
    \E l \in lagging :
        /\ lagging' = lagging \ {l}
        /\ UNCHANGED <<tables, now, uuid4s, failures, proc, overlap, scan,
                       client, http, ctl_messages_by_conversation,
                       ctl_conversations_by_user>>

\* The body of MessageController's two reads after the query was built:
\* rows = session.execute(query, ...); all_rows = list(rows)[offset:]
ReadMessages(f, rows, offset, limit) ==
    \/ /\ StatementFails
       /\ http' = Raise(f, 500)
    \/ /\ offset + limit <= 0        \* the store rejects LIMIT 0 and below
       /\ StatementRuns
       /\ http' = Raise(f, 500)
    \/ /\ offset + limit > 0
       /\ StatementRuns
       /\ \E visible \in VisibleSets(rows, DefaultConsistency) :
              http' = Respond([f EXCEPT !.visible = visible],
                         MessageResponses(
                             Slice(Take(SortCtlMessages(visible), offset + limit),
                                   offset)))

\* MessageController.get_conversation_messages(conversation_id, page, limit)
ControllerGetConversationMessages ==
    \E conversation_id \in ConversationIds, page \in PageNos, limit \in Limits :
        LET offset == (page - 1) * limit
            rows == CtlPartition(conversation_id)
            f == [Request("get_conversation_messages", conversation_id, page, limit)
                     EXCEPT !.queries = 1, !.page_size = limit,
                            !.partition = rows]
        IN  /\ Arrives("get_conversation_messages")
            /\ ReadMessages(f, rows, offset, limit)
            /\ UNCHANGED <<tables, now, uuid4s, proc, overlap, scan, client,
                           ctl_messages_by_conversation,
                           ctl_conversations_by_user, lagging>>

\* MessageController.get_messages_before_timestamp(conversation_id,
\*                                                 before_timestamp, page, limit)
ControllerGetMessagesBeforeTimestamp ==
    \E conversation_id \in ConversationIds, page \in PageNos, limit \in Limits,
       before_timestamp \in 1..MaxTime, lo \in 0..MaxRnd :
        LET max_uuid == UuidFromTime(before_timestamp, lo)
            offset == (page - 1) * limit
            rows == {m \in CtlPartition(conversation_id) : m.message_id < max_uuid}
            f == [Request("get_messages_before_timestamp", conversation_id,
                          page, limit)
                     EXCEPT !.queries = 1, !.page_size = limit,
                            !.before_timestamp = before_timestamp,
                            !.partition = rows]
        IN  /\ Arrives("get_messages_before_timestamp")
            /\ ReadMessages(f, rows, offset, limit)
            /\ UNCHANGED <<tables, now, uuid4s, proc, overlap, scan, client,
                           ctl_messages_by_conversation,
                           ctl_conversations_by_user, lagging>>

\* if limit <= 0: limit = 20
ClampedLimit(limit) == IF limit <= 0 THEN PAGE_SIZE ELSE limit

\* ConversationController.get_user_conversations(user_id, page, limit): one
\* call of ConversationModel.get_user_conversations with paging_state=None
ControllerGetUserConversations ==
    \E user_id \in Users, page \in PageNos, limit \in Limits :
        LET page_size == ClampedLimit(limit)
            rows == UserPartition(user_id)
            f == [Request("get_user_conversations", user_id, page, limit)
                     EXCEPT !.queries = 1, !.page_size = page_size,
                            !.partition = rows, !.visible = rows]
        IN  /\ Arrives("get_user_conversations")
            /\ \/ /\ StatementFails
                  /\ http' = Respond(f, << >>)
               \/ /\ StatementRuns
                  /\ http' = Respond(f,
                         FormatConversations(user_id,
                             Take(SortConversations(rows), page_size)))
            /\ UNCHANGED <<tables, now, uuid4s, proc, overlap, scan, client,
                           ctl_messages_by_conversation,
                           ctl_conversations_by_user, lagging>>

\* Variant: the index rows are searched for the conversation.
ScanForConversation(conversation_id) ==
    [queries |-> 1,
     data |-> IF \E r \in conversations_by_user :
                     r.conversation_id = conversation_id
              THEN conversation_id ELSE None]
\* ConversationModel.get_conversation: logger.warning(...); return None
ModelGetConversation(conversation_id) == [queries |-> 0, data |-> None]

\* ConversationController.get_conversation(conversation_id)
ControllerGetConversation ==
    \E conversation_id \in
           ConversationIds \cup {r.conversation_id : r \in conversation_by_users} :
        LET conversation_data == ModelGetConversation(conversation_id)
            f == [Request("get_conversation", conversation_id, 0, 0)
                     EXCEPT !.queries = conversation_data.queries]
        IN  /\ Arrives("get_conversation")
            /\ http' = IF conversation_data.data = None
                       THEN Raise(f, 404)
                       ELSE Respond(f, <<conversation_data.data>>)
            /\ UNCHANGED <<tables, now, uuid4s, failures, proc, overlap, scan,
                           client, ctl_messages_by_conversation,
                           ctl_conversations_by_user, lagging>>

\* The process from the import of the client module on: the connection, then
\* requests one at a time.
InitApi ==
    /\ conversation_by_users = {}
    /\ messages_by_conversation = {}
    /\ conversations_by_user = {}
    /\ now = 1
    /\ uuid4s = 0
    /\ failures = 0
    /\ proc = [p \in Procs |-> Idle]
    /\ overlap = {}
    /\ scan = NoScan
    /\ client = NewClient
    /\ http = NoRequest
    /\ ctl_messages_by_conversation = {}
    /\ ctl_conversations_by_user = {}
    /\ lagging = {}

Quiet == http.pc \in {"idle", "done"}

NextApi ==
    \/ Construct
    \/ ConnectAttempt
    \/ ConnectSleep
    \/ \E p \in Procs :
           Serving /\ Quiet /\ ModelsLayout /\ Sequential(p) /\ CreateMessage(p)
    \/ \E p \in Procs : ResolveSelect(p)
    \/ \E p \in Procs : ResolveInsert(p)
    \/ \E p \in Procs : GenerateMessage(p)
    \/ \E p \in Procs : InsertMessage(p)
    \/ \E p \in Procs : UpsertSender(p)
    \/ \E p \in Procs : UpsertReceiver(p)
    \/ SendMessage
    \/ SendInsertMessage
    \/ SendUpdateSender
    \/ SendUpdateRecipient
    \/ Propagate
    \/ ControllerGetConversationMessages
    \/ ControllerGetMessagesBeforeTimestamp
    \/ ControllerGetUserConversations
    \/ ControllerGetConversation
    \/ Serving /\ Tick

SpecApi ==
    /\ InitApi
    /\ [][NextApi]_vars
    /\ WF_vars(ConnectAttempt)
    /\ WF_vars(ConnectSleep)
    /\ WF_vars(Construct)

\* ------------------------------------------------------ the client's life
\* The process from the import of the client module to its shutdown: the
\* connection, then calls on the client and model operations one at a time,
\* before and after close().
NextClient ==
    \/ Construct
    \/ ConnectAttempt
    \/ ConnectSleep
    \/ Close
    \/ GetSession
    \/ Execute
    \/ ExecuteAsync
    \/ \E p \in Procs : Serving /\ Sequential(p) /\ CreateOrGetConversation(p)
    \/ \E p \in Procs : Serving /\ Sequential(p) /\ CreateMessage(p)
    \/ \E p \in Procs : ResolveSelect(p)
    \/ \E p \in Procs : ResolveInsert(p)
    \/ \E p \in Procs : GenerateMessage(p)
    \/ \E p \in Procs : InsertMessage(p)
    \/ \E p \in Procs : UpsertSender(p)
    \/ \E p \in Procs : UpsertReceiver(p)
    \/ Serving /\ Tick

SpecClient ==
    /\ InitApi
    /\ [][NextClient]_vars
    /\ WF_vars(ConnectAttempt)
    /\ WF_vars(ConnectSleep)
    /\ WF_vars(Construct)

\* ------------------------------------------------------------------ claims
Sends == {p \in Procs : proc[p].op = "create_message"}
Mapped(k) ==
    {r.conversation_id : r \in
        {x \in conversation_by_users : x.user_a_id = k[1] /\ x.user_b_id = k[2]}}
Resolved(k) ==
    {p \in Procs : proc[p].conversation_id # None /\ FrameKey(proc[p]) = k}
SendOk(p) ==
    /\ proc[p].op = "create_message"
    /\ proc[p].pc = "done"
    /\ proc[p].failed_at = "none"
MessagesOf(p) ==
    {m \in messages_by_conversation : m.message_id = proc[p].message_id}
IndexRowsOf(p) ==
    {r \in conversations_by_user :
        /\ r.last_message_time = proc[p].message_time
        /\ r.conversation_id = proc[p].conversation_id}

RacedPair(p, q) ==
    /\ p # q
    /\ SendOk(p) /\ SendOk(q)
    /\ FrameKey(proc[p]) = FrameKey(proc[q])
    /\ ~proc[p].row_found /\ ~proc[q].row_found

\* C1: two create_message calls for one pair whose point reads both found no
\* row each insert an id of their own: they return different conversation
\* ids and their messages lie in two different partitions.
C1_IdentitySplit ==
    \A p, q \in Procs :
        RacedPair(p, q) =>
            /\ proc[p].inserted /\ proc[q].inserted
            /\ proc[p].ret[1] # proc[q].ret[1]
            /\ \A m \in MessagesOf(p), n \in MessagesOf(q) :
                   m.conversation_id # n.conversation_id
            /\ MessagesOf(p) # {} /\ MessagesOf(q) # {}

C1_Witness ==
    \E p, q \in Procs :
        /\ RacedPair(p, q)
        /\ proc[p].user1_id = proc[q].user1_id
        /\ FrameKey(proc[p]) \in overlap

\* C2: while no two resolver runs for a pair overlapped and no storage call
\* failed, every run for the pair returned the same id, the id the table
\* holds; the first run inserted it and no later run inserted anything.
C2_CanonicalWithoutOverlap ==
    \A k \in Keys :
        (k \notin overlap /\ failures = 0) =>
            /\ \A p, q \in Resolved(k) :
                   proc[p].conversation_id = proc[q].conversation_id
            /\ \A p \in Resolved(k) :
                   /\ Mapped(k) = {proc[p].conversation_id}
                   /\ proc[p].inserted <=> (\A q \in Resolved(k) : p <= q)
                   /\ proc[p].row_found <=> ~proc[p].inserted

C2_Witness ==
    \E k \in Keys, p, q \in Procs :
        /\ k \notin overlap /\ failures = 0
        /\ p < q /\ {p, q} \subseteq Resolved(k)
        /\ proc[p].pc = "done" /\ proc[q].pc = "done"
        /\ proc[p].inserted /\ proc[q].row_found
        /\ proc[p].user1_id = proc[q].user2_id
        /\ proc[p].user2_id = proc[q].user1_id

InOrPastResolver(p) ==
    proc[p].op # "idle" /\ proc[p].user1_id # proc[p].user2_id
Swapped(p, q) ==
    /\ InOrPastResolver(p) /\ InOrPastResolver(q)
    /\ proc[p].user1_id = proc[q].user2_id
    /\ proc[p].user2_id = proc[q].user1_id

\* C3: a resolver run for (a, b) and one for (b, a) use the same key
\* (min, max) in their statements, every stored key is ordered, and run one
\* after the other the two return the same conversation id.
C3_Symmetry ==
    /\ \A r \in conversation_by_users : r.user_a_id < r.user_b_id
    /\ \A p \in Procs :
           InOrPastResolver(p) =>
               /\ proc[p].user_a_id = Min(proc[p].user1_id, proc[p].user2_id)
               /\ proc[p].user_b_id = Max(proc[p].user1_id, proc[p].user2_id)
    /\ \A p, q \in Procs :
           Swapped(p, q) =>
               /\ FrameKey(proc[p]) = FrameKey(proc[q])
               /\ ( /\ FrameKey(proc[p]) \notin overlap
                    /\ failures = 0
                    /\ proc[p].conversation_id # None
                    /\ proc[q].conversation_id # None )
                  => proc[p].conversation_id = proc[q].conversation_id

C3_Witness ==
    \E p, q \in Procs :
        /\ Swapped(p, q)
        /\ proc[p].user1_id > proc[p].user2_id
        /\ FrameKey(proc[p]) \notin overlap /\ failures = 0
        /\ proc[p].op = "create_or_get_conversation"
        /\ proc[q].op = "create_or_get_conversation"
        /\ proc[p].pc = "done" /\ proc[q].pc = "done"
        /\ proc[p].ret = proc[q].ret /\ proc[p].ret # <<None>>

SelfCall(p) ==
    proc[p].op # "idle" /\ proc[p].user1_id = proc[p].user2_id

\* C4: a call with user1_id = user2_id ends with ValueError raised before any
\* storage statement was issued, hands its caller the failure value, and no
\* table ever holds a row of a user with themself.
C4_SelfRejected ==
    /\ \A p \in Procs :
           SelfCall(p) =>
               /\ proc[p].pc = "done"
               /\ proc[p].raised = "ValueError"
               /\ proc[p].nstmt = 0
               /\ proc[p].ret = FailureReturn(proc[p].op)
               /\ proc[p].conversation_id = None
    /\ \A r \in conversation_by_users : r.user_a_id # r.user_b_id
    /\ \A m \in messages_by_conversation : m.sender_id # m.receiver_id
    /\ \A r \in conversations_by_user : r.user_id # r.other_user_id

C4_Witness ==
    \E p, q \in Procs :
        /\ SelfCall(p) /\ proc[p].op = "create_message"
        /\ SelfCall(q) /\ proc[q].op = "create_or_get_conversation"
        /\ messages_by_conversation = {}

WriteSteps == <<"insert_conv", "insert_msg", "idx_sender", "idx_receiver">>
StepNo(step) == CHOOSE i \in 1..Len(WriteSteps) : WriteSteps[i] = step
\* Statement number i of create_message has been executed by call p.
Past(p, i) ==
    \/ proc[p].pc \in {WriteSteps[j] : j \in (i + 1)..Len(WriteSteps)}
    \/ proc[p].pc = "done" /\ proc[p].failed_at = "none"
    \/ /\ proc[p].pc = "done"
       /\ proc[p].failed_at \in {WriteSteps[j] : j \in (i + 1)..Len(WriteSteps)}
\* Statement number i was issued by call p (executed, or it raised).
Issued(p, i) ==
    Past(p, i) \/ (proc[p].pc = "done" /\ proc[p].failed_at = WriteSteps[i])
SenderRowsOf(p) == {r \in IndexRowsOf(p) : r.user_id = proc[p].user1_id}
ReceiverRowsOf(p) == {r \in IndexRowsOf(p) : r.user_id = proc[p].user2_id}

\* C9: create_message writes in the order mapping, message, sender row,
\* receiver row. The rows of the statements a call has executed are in the
\* store, also after a later statement of the call failed; no row of a
\* statement after the failed one exists; a failed call is done and hands
\* its caller (None, None, None).
C9_NoRollback ==
    \A p \in Sends :
        ~SelfCall(p) =>
            /\ proc[p].inserted => Mapped(FrameKey(proc[p])) # {}
            /\ Past(p, 2) => MessagesOf(p) # {}
            /\ Past(p, 3) => SenderRowsOf(p) # {}
            /\ Past(p, 4) => ReceiverRowsOf(p) # {}
            /\ MessagesOf(p) # {} => Issued(p, 2)
            /\ SenderRowsOf(p) # {} => Issued(p, 3)
            /\ ReceiverRowsOf(p) # {} => Issued(p, 4)
            /\ MessagesOf(p) \subseteq {MessageRow(proc[p])}
            /\ proc[p].failed_at # "none" =>
                   /\ proc[p].pc = "done"
                   /\ proc[p].ret = <<None, None, None>>
            /\ SendOk(p) =>
                   proc[p].ret = <<proc[p].conversation_id,
                                   proc[p].message_time, proc[p].message_id>>

C9_Witness ==
    \E p \in Sends :
        /\ proc[p].failed_at = "idx_receiver"
        /\ proc[p].inserted
        /\ MessagesOf(p) # {} /\ SenderRowsOf(p) # {} /\ ReceiverRowsOf(p) = {}
        /\ proc[p].ret = <<None, None, None>>

\* listForUser(user_id): the rows a full cursor chain returns
ListForUser(user_id) ==
    FormatConversations(user_id, SortConversations(UserPartition(user_id)))
Entries(user_id) ==
    {ListForUser(user_id)[i] : i \in 1..Len(ListForUser(user_id))}
IsPrefix(a, b) == Len(a) <= Len(b) /\ a = SubSeq(b, 1, Len(a))

\* C5 (as amended): after a successful send from A to B, listForUser(A) has
\* an entry for the conversation with counterpart B and listForUser(B) one
\* with counterpart A; the two entries carry the same last-message time, the
\* one derived from the message's time uuid, and the same snippet; the last
\* sender A is in both stored index rows, not in the entries.
C5_FanOutVisible ==
    \A p \in Procs :
        SendOk(p) =>
            LET f == proc[p]
                sender == f.user1_id
                receiver == f.user2_id
            IN  /\ \E a \in Entries(sender), b \in Entries(receiver) :
                       /\ a.id = f.ret[1] /\ b.id = f.ret[1]
                       /\ a.user1_id = sender /\ a.user2_id = receiver
                       /\ b.user1_id = receiver /\ b.user2_id = sender
                       /\ a.last_message_at = CreatedAt(f.ret[2])
                       /\ b.last_message_at = a.last_message_at
                       /\ b.last_message_content = a.last_message_content
                       /\ IsPrefix(a.last_message_content, f.content)
                       /\ DOMAIN a = DOMAIN b
                       /\ "last_message_sender_id" \notin DOMAIN a
                /\ \A u \in {sender, receiver} :
                       \E r \in UserPartition(u) :
                           /\ r.conversation_id = f.ret[1]
                           /\ r.last_message_time = f.ret[2]
                           /\ r.last_message_sender_id = sender

C5_Witness ==
    \E p \in Procs :
        /\ SendOk(p)
        /\ proc[p].content = LongContent
        /\ Len(ListForUser(proc[p].user1_id)) = 1
        /\ Len(ListForUser(proc[p].user2_id)) = 1

\* C5 (as claimed): both listForUser entries carry the last sender A.
C5_EntriesCarrySender ==
    \A p \in Procs :
        SendOk(p) =>
            \A u \in {proc[p].user1_id, proc[p].user2_id} :
                \E e \in Entries(u) :
                    /\ e.id = proc[p].ret[1]
                    /\ "last_message_sender_id" \in DOMAIN e
                    /\ e.last_message_sender_id = proc[p].user1_id

\* C6 (as claimed): conversations_by_user holds at most one row for each
\* (owning user, conversation id), so listForUser lists no conversation twice.
C6_OneRowPerConversation ==
    /\ \A r, t \in conversations_by_user :
           (r.user_id = t.user_id /\ r.conversation_id = t.conversation_id)
               => r = t
    /\ \A u \in Users :
           \A i, j \in 1..Len(ListForUser(u)) :
               ListForUser(u)[i].id = ListForUser(u)[j].id => i = j

\* --------------------------------------------------------------- the chains
RECURSIVE Concat(_)
Concat(pages) ==
    IF pages = << >> THEN << >> ELSE Head(pages) \o Concat(Tail(pages))

CeilDiv(n, d) == (n + d - 1) \div d

ChainDone(op) ==
    /\ scan.op = op /\ scan.pc = "done" /\ ~scan.failed
ChainQuiet(partition) == partition = scan.scan_start

\* C7 (as amended): with N messages in the partition and no write during the
\* scan, the pages of a finished listByConversation chain, put end to end,
\* are the N messages newest first, each exactly once; every page but the
\* last is full; the chain has ceil(N/P) pages, or one more, empty, page
\* when N is a multiple of P (one empty page when N = 0); the last cursor
\* is null.
C7_PaginationComplete ==
    (ChainDone("get_conversation_messages")
        /\ ChainQuiet(MessagePartition(scan.target))) =>
        LET all == FormatMessages(SortMessages(MessagePartition(scan.target)))
            N == Len(all)
            P == scan.page_size
            K == Len(scan.pages)
        IN  /\ Concat(scan.pages) = all
            /\ \A i, j \in 1..N : i < j => all[i].message_time > all[j].message_time
            /\ \A i \in 1..(K - 1) : Len(scan.pages[i]) = P
            /\ \/ K = CeilDiv(N, P)
               \/ N % P = 0 /\ K = (N \div P) + 1 /\ scan.pages[K] = << >>
            /\ K >= 1
            /\ scan.ret[2] = NoPagingState

C7_Witness ==
    /\ ChainDone("get_conversation_messages")
    /\ ChainQuiet(MessagePartition(scan.target))
    /\ Cardinality(MessagePartition(scan.target)) = 2
    /\ scan.page_size = 1
    /\ Len(scan.pages) = 2

\* C7 (as claimed): the chain over N >= 1 messages has ceil(N/P) pages.
C7_CeilPages ==
    (ChainDone("get_conversation_messages")
        /\ ChainQuiet(MessagePartition(scan.target))
        /\ MessagePartition(scan.target) # {}) =>
        Len(scan.pages) =
            CeilDiv(Cardinality(MessagePartition(scan.target)), scan.page_size)

PageRows == {scan.pages[i][j] : <<i, j>> \in
                {x \in (1..Len(scan.pages)) \X (1..MaxPage) :
                     x[2] <= Len(scan.pages[x[1]])}}

\* C8 (as claimed): the chain of listBeforeTimestamp(conv, T) returns exactly
\* the messages of the conversation whose creation time is less than T.
C8_CutoffExact ==
    (ChainDone("get_messages_before_timestamp")
        /\ ChainQuiet(MessagePartition(scan.target))) =>
        PageRows = {FormatMessage(m) : m \in
                       {x \in MessagePartition(scan.target) :
                            UuidTime(x.message_time) < scan.before_timestamp}}

\* C10 (as claimed): a read whose storage call failed does not hand its
\* caller what a read of an empty partition returns.
C10_ReadFailureSurfaced ==
    scan.failed => scan.ret # << << >>, NoPagingState >>

\* ------------------------------------------------------------ the messages
\* listByConversation(conversation_id): the rows a full cursor chain returns
ListByConversation(conversation_id) ==
    FormatMessages(SortMessages(MessagePartition(conversation_id)))
Listed(conversation_id) ==
    {ListByConversation(conversation_id)[i] :
        i \in 1..Len(ListByConversation(conversation_id))}
StoredSends == {p \in Sends : ~SelfCall(p) /\ Past(p, 2)}
SameSubmission(p, q) ==
    /\ proc[p].user1_id = proc[q].user1_id
    /\ proc[p].user2_id = proc[q].user2_id
    /\ proc[p].content = proc[q].content

\* C11: every send whose message insert was executed has exactly one message
\* row, with an id no other row has, in the partition of the conversation id
\* it resolved; the table holds as many rows as there were such sends, also
\* when the sends name the same sender, receiver and content; and
\* listByConversation of the conversation returns the row.
C11_NoDeduplication ==
    /\ Cardinality(messages_by_conversation) = Cardinality(StoredSends)
    /\ \A p \in StoredSends :
           /\ MessagesOf(p) = {MessageRow(proc[p])}
           /\ FormatMessage(MessageRow(proc[p])) \in Listed(proc[p].conversation_id)
    /\ \A p, q \in StoredSends :
           p # q => /\ proc[p].message_id # proc[q].message_id
                    /\ MessagesOf(p) \cap MessagesOf(q) = {}
    /\ \A m, n \in messages_by_conversation :
           m.message_id = n.message_id => m = n

C11_Witness ==
    \E p, q \in Procs :
        /\ p # q /\ SendOk(p) /\ SendOk(q)
        /\ SameSubmission(p, q)
        /\ proc[p].ret[1] = proc[q].ret[1]
        /\ Len(ListByConversation(proc[p].ret[1])) = 2

SenderSnippets(p) == {r.last_message_content : r \in SenderRowsOf(p)}
ReceiverSnippets(p) == {r.last_message_content : r \in ReceiverRowsOf(p)}
Capped(content) ==
    IF Len(content) <= 200 THEN content
    ELSE [i \in 1..200 |-> content[i]]
ContentOfLen(n) == [i \in 1..n |-> 1 + (i % 3)]

\* C14: the snippet in the sender's and in the receiver's index row is the
\* content when it has at most 200 characters and its first 200 characters
\* otherwise; the message row holds the whole content; a send fails only
\* when a storage statement failed, whatever the length of the content.
C14_SnippetTruncation ==
    /\ \A p \in Sends :
           ~SelfCall(p) =>
               /\ SenderSnippets(p) \subseteq {Capped(proc[p].content)}
               /\ ReceiverSnippets(p) \subseteq {Capped(proc[p].content)}
               /\ \A m \in MessagesOf(p) : m.content = proc[p].content
               /\ Past(p, 3) => SenderSnippets(p) # {}
               /\ Past(p, 4) => ReceiverSnippets(p) # {}
               /\ proc[p].raised # "none" => failures > 0
    /\ \A n \in {0, 1, 199, 200, 201, 202} :
           Snippet(ContentOfLen(n)) = Capped(ContentOfLen(n))

C14_Witness ==
    \E p, q \in Procs :
        /\ SendOk(p) /\ SendOk(q)
        /\ proc[p].content = LongContent /\ proc[q].content = ShortContent
        /\ \E r \in SenderRowsOf(p) : Len(r.last_message_content) = 200
        /\ \E r \in ReceiverRowsOf(p) : Len(r.last_message_content) = 200
        /\ \E m \in MessagesOf(p) : Len(m.content) = 201
        /\ \E r \in ReceiverRowsOf(q) : r.last_message_content = ShortContent

\* ---------------------------------------------------- chains under writes
LastRow(page) == page[Len(page)]
OlderThan(m, n) ==
    \/ m.message_time < n.message_time
    \/ m.message_time = n.message_time /\ m.message_id < n.message_id
PageIndexes == {i \in 1..Len(scan.pages) : scan.pages[i] # << >>}

\* C19: in a listByConversation chain, with sends into the conversation
\* between its page fetches, every row of a page is older than the last row
\* of every page before it, so no message is returned twice; and when the
\* chain has ended, every message the partition held when the chain started
\* was returned.
C19_CursorResumes ==
    (scan.op = "get_conversation_messages" /\ ~scan.failed) =>
        /\ \A i, j \in PageIndexes :
               i < j => \A k \in 1..Len(scan.pages[j]) :
                           OlderThan(scan.pages[j][k], LastRow(scan.pages[i]))
        /\ \A i, j \in 1..Len(Concat(scan.pages)) :
               i # j => Concat(scan.pages)[i] # Concat(scan.pages)[j]
        /\ scan.pc = "done" =>
               {FormatMessage(m) : m \in scan.scan_start} \subseteq PageRows

C19_Witness ==
    /\ scan.op = "get_conversation_messages" /\ scan.pc = "done" /\ ~scan.failed
    /\ Cardinality(scan.scan_start) = 1
    /\ Len(scan.pages) >= 2
    /\ Cardinality(PageRows) = 2
    /\ Cardinality(MessagePartition(scan.target)) = 2

\* ------------------------------------------------------------ the mapping
Pending(k) ==
    {p \in DOMAIN proc : FrameKey(proc[p]) = k /\ proc[p].pc = "insert_conv"}
Returns(p) ==
    /\ proc[p].pc # "done" /\ proc'[p].pc = "done"
    /\ proc'[p].raised = "none"
    /\ proc'[p].op = "create_or_get_conversation"

\* C20: conversation_by_users holds at most one row for a key, and keys are
\* ordered low < high; a resolver call that returns hands out the id the row
\* holds at that moment, so an id that was overwritten is not returned
\* again; and while no call for the pair is between its read and its
\* insert, the row of the pair does not change.
C20_MappingConverges ==
    /\ [](\A r, t \in conversation_by_users :
             /\ r.user_a_id < r.user_b_id
             /\ SameConvByUsersKey(r, t) => r = t)
    /\ [][ /\ \A p \in DOMAIN proc :
                  Returns(p) =>
                      {r.conversation_id : r \in
                          {x \in conversation_by_users' :
                              /\ x.user_a_id = proc'[p].user_a_id
                              /\ x.user_b_id = proc'[p].user_b_id}}
                          = {proc'[p].ret[1]}
           /\ \A k \in Keys :
                  (Mapped(k) # {} /\ Pending(k) = {}) =>
                      {r \in conversation_by_users' :
                          r.user_a_id = k[1] /\ r.user_b_id = k[2]}
                      = {r \in conversation_by_users :
                          r.user_a_id = k[1] /\ r.user_b_id = k[2]} ]_vars

C20_Witness ==
    \E k \in Keys :
        /\ \A p \in Resolvers : FrameKey(proc[p]) = k /\ proc[p].pc = "done"
        /\ proc[1].inserted /\ proc[2].inserted /\ proc[3].row_found
        /\ proc[3].ret[1] \in Mapped(k)
        /\ \E p \in {1, 2} : proc[p].ret[1] \notin Mapped(k)

\* ------------------------------------------------------------ the requests
Answered(op) == http.op = op /\ http.pc = "done"
MessageReads == {"get_conversation_messages", "get_messages_before_timestamp"}
PagedReads == MessageReads \cup {"get_user_conversations"}
AnsweredRead == http.op \in PagedReads /\ http.pc = "done"

\* C13: ConversationController.get_conversation answers 404 for every
\* conversation id, with or without messages in the conversation; it issues
\* no storage statement, and the step changes no table.
C13_DirectLookupUnsupported ==
    /\ [](Answered("get_conversation") =>
             /\ http.status = 404
             /\ http.queries = 0
             /\ http.data = << >>)
    /\ [][ (http' # http /\ http'.op = "get_conversation") =>
               /\ tables' = tables
               /\ failures' = failures ]_vars

C13_Witness ==
    /\ Answered("get_conversation")
    /\ http.status = 404
    /\ MessagePartition(http.target) # {}
    /\ UserPartition(1) # {}

\* C17 (as claimed): a paginated read of a controller that is called with a
\* page size of 0 or less and meets no storage failure is answered, and was
\* run with the default page size of 20.
C17_PageSizeLenient ==
    (AnsweredRead /\ http.limit <= 0 /\ failures = 0) =>
        /\ http.status = 200
        /\ http.page_size = PAGE_SIZE

\* The first page of what the request could see.
FirstPage ==
    IF http.op = "get_user_conversations"
    THEN FormatConversations(http.target,
             Take(SortConversations(http.visible), http.page_size))
    ELSE MessageResponses(Take(SortCtlMessages(http.visible), http.page_size))

\* C18 (as claimed): an answered read returns the first page of its
\* partition whatever page number it was given.
C18_PageIgnored ==
    (AnsweredRead /\ http.status = 200 /\ failures = 0) =>
        http.data = FirstPage

\* C15 (as claimed): a read that starts after the insert of a message was
\* acknowledged sees the message: what the read saw of its partition is the
\* partition.
C15_ReadYourWrites ==
    (AnsweredRead /\ http.status = 200 /\ failures = 0) =>
        http.visible = http.partition

\* ------------------------------------------------------------- the startup
\* C16: connect makes at most max_retries attempts; a successful attempt
\* returns at once with the session set; it has slept `delay` once after
\* each failed attempt but the last; after max_retries failed attempts it
\* raises, with no session and no sleep after the last attempt; and it
\* always comes to an end.
C16_BoundedConnect ==
    /\ [](/\ client.attempt <= max_retries
          /\ client.slept = delay * client.sleeps
          /\ client.pc = "connecting" =>
                 /\ client.sleeps = client.attempt
                 /\ client.attempt < max_retries
                 /\ client.session = None
          /\ client.pc = "sleeping" =>
                 /\ client.sleeps = client.attempt - 1
                 /\ client.attempt < max_retries
                 /\ client.session = None
          /\ client.pc = "raised" =>
                 /\ client.attempt = max_retries
                 /\ client.sleeps = max_retries - 1
                 /\ client.session = None
                 /\ ~client.initialized
          /\ client.pc = "ready" => client.session # None)
    /\ [][ /\ client.pc = "sleeping" => client'.pc \in {"sleeping", "connecting"}
           /\ (client.pc = "connecting" /\ client'.pc = "ready") =>
                  client'.session # None
           /\ client.pc = "raised" => client' = client ]_vars
    /\ <>(client.pc \in {"ready", "raised"})

C16_Witness ==
    /\ client.pc = "raised"
    /\ client.attempt = max_retries
    /\ client.slept = delay * (max_retries - 1)

\* --------------------------------------------------------------- the index
\* Message row m is the message that index row r announces.
Backs(m, r) ==
    /\ m.conversation_id = r.conversation_id
    /\ m.message_time = r.last_message_time
    /\ m.sender_id = r.last_message_sender_id
    /\ {m.sender_id, m.receiver_id} = {r.user_id, r.other_user_id}

\* C21: every conversations_by_user row is backed by a message row of its
\* conversation with the same time uuid, the same sender and the same two
\* participants, also after a statement of create_message failed; and the
\* receiver's row of a message exists only when the statement for the
\* sender's row was issued before.
C21_IndexBacked ==
    /\ \A r \in conversations_by_user :
           \E m \in messages_by_conversation : Backs(m, r)
    /\ \A p \in Sends : ReceiverRowsOf(p) # {} => Issued(p, 3)

C21_Witness ==
    \E p, q \in Sends :
        /\ proc[p].failed_at = "idx_sender"
        /\ MessagesOf(p) # {} /\ IndexRowsOf(p) = {}
        /\ SendOk(q)
        /\ SenderRowsOf(q) # {} /\ ReceiverRowsOf(q) # {}

\* ---------------------------------------------------------------- the sends
\* C22 (as claimed): every stored message row, whichever send path wrote it,
\* has a sender other than its receiver and lies under a conversation id
\* that conversation_by_users maps its pair (min, max) to.
C22_SendsResolved ==
    /\ \A m \in messages_by_conversation :
           /\ m.sender_id # m.receiver_id
           /\ m.conversation_id \in Mapped(ConvKey(m.sender_id, m.receiver_id))
    /\ \A m \in ctl_messages_by_conversation :
           /\ m.sender_id # m.recipient_id
           /\ m.conversation_id \in Mapped(ConvKey(m.sender_id, m.recipient_id))

\* The rows one send_message call has written, once it has answered 201.
SentMessageRows ==
    {m \in ctl_messages_by_conversation :
        m.conversation_id = http.target /\ m.message_id = http.message_id}
SentIndexRows(user_id, participant_id, timestamp) ==
    {r \in ctl_conversations_by_user :
        /\ r.user_id = user_id /\ r.participant_id = participant_id
        /\ r.conversation_id = http.target
        /\ r.last_message_timestamp = timestamp}

\* C23 (as claimed): the message row, the sender's index row and the
\* recipient's index row of one send_message call carry one timestamp, and
\* the response carries the same.
C23_SingleTimestamp ==
    (Answered("send_message") /\ http.status = 200) =>
        \A m \in SentMessageRows :
            /\ SentIndexRows(http.sender_id, http.recipient_id, m.timestamp) # {}
            /\ SentIndexRows(http.recipient_id, http.sender_id, m.timestamp) # {}
            /\ http.timestamp = m.timestamp

\* ------------------------------------------------------- the displayed time
\* C24 (as claimed): the created_at of every message a reader returned is the
\* clock reading its time uuid was generated from, and the last_message_at of
\* every conversation entry a reader returned is the clock reading of the
\* index row's time uuid.
C24_DisplayedTimeRoundTrip ==
    /\ scan.op \in MessageReads =>
           \A row \in PageRows : row.created_at = UuidTime(row.message_time)
    /\ scan.op = "get_user_conversations" =>
           \A row \in PageRows :
               \E r \in UserPartition(scan.target) :
                   /\ r.conversation_id = row.id
                   /\ row.last_message_at = UuidTime(r.last_message_time)

\* ------------------------------------------------------------ the outcomes
\* C25 (as claimed): what an operation hands its caller after a
\* self-conversation attempt differs from what it hands its caller after a
\* storage statement failed.
C25_ErrorKindsDistinct ==
    \A p, q \in Procs :
        ( /\ proc[p].pc = "done" /\ proc[q].pc = "done"
          /\ proc[p].op = proc[q].op
          /\ proc[p].raised = "ValueError"
          /\ proc[q].raised = "StorageError" )
            => proc[p].ret # proc[q].ret

\* -------------------------------------------------------- the steady state
RetryLoop == {"connecting", "sleeping", "raised"}
CallSteps ==
    <<"idle", "select", "insert_conv", "generate", "insert_msg", "idx_sender",
      "idx_receiver", "done">>
PcNo(pc) == CHOOSE i \in 1..Len(CallSteps) : CallSteps[i] = pc

\* C26: once the instance is built no call is ever in the loop of connect,
\* close() or no close(); every step of a model operation moves the call
\* forward, so no storage statement is issued twice, and a call whose
\* statement raised is done; a call issues at most the statements of its
\* operation.
C26_FailFast ==
    /\ [](client.initialized => client.pc \notin RetryLoop)
    /\ [](\A p \in Procs :
             /\ proc[p].raised = "StorageError" => proc[p].pc = "done"
             /\ proc[p].nstmt <= IF proc[p].op = "create_message" THEN 5 ELSE 2)
    /\ [][ \A p \in Procs :
               proc'[p] # proc[p] =>
                   /\ PcNo(proc'[p].pc) > PcNo(proc[p].pc)
                   /\ proc'[p].nstmt <= proc[p].nstmt + 1 ]_vars

C26_Witness ==
    /\ client.closed
    /\ client.call = "get_session"
    /\ client.pc = "ready"
    /\ \E p \in Procs :
           /\ proc[p].op = "create_message"
           /\ proc[p].raised = "StorageError"
           /\ proc[p].nstmt = 1
           /\ failures = 0

\* C27 (as claimed): no call on the client hands out or runs a query on a
\* session whose cluster was shut down.
C27_LazyReconnect ==
    client.used # "shutdown"

\* ------------------------------------------------------------- the listing
\* Entry e of a page is index row r as get_user_conversations(user_id) shapes it.
Shows(e, r, user_id) ==
    /\ DOMAIN e = {"id", "user1_id", "user2_id", "last_message_at",
                   "last_message_content"}
    /\ e.id = r.conversation_id
    /\ e.user1_id = user_id
    /\ e.user2_id = r.other_user_id
    /\ e.last_message_at = CreatedAt(r.last_message_time)
    /\ e.last_message_content = r.last_message_content

\* C28: with no write to the partition during the scan, the pages of a
\* finished get_user_conversations(u, P) chain, put end to end, are the rows
\* of partition u, each exactly once and each owned by u, in non-increasing
\* last-message time, each shaped as (conversation id, u, other participant,
\* last-message time, snippet).
C28_ListingByRecency ==
    (ChainDone("get_user_conversations")
        /\ ChainQuiet(UserPartition(scan.target))) =>
        LET u == scan.target
            rows == SortConversations(UserPartition(u))
            all == Concat(scan.pages)
        IN  /\ Len(all) = Cardinality(UserPartition(u))
            /\ Len(rows) = Len(all)
            /\ \A i \in 1..Len(all) :
                   /\ Shows(all[i], rows[i], u)
                   /\ rows[i].user_id = u
            /\ \A i, j \in 1..Len(all) :
                   i < j =>
                       /\ rows[i].last_message_time >= rows[j].last_message_time
                       /\ all[i].last_message_at >= all[j].last_message_at
                       /\ rows[i] # rows[j]

C28_Witness ==
    /\ ChainDone("get_user_conversations")
    /\ ChainQuiet(UserPartition(scan.target))
    /\ Cardinality(UserPartition(scan.target)) = 2
    /\ scan.page_size = 1
    /\ Len(scan.pages) >= 2
    /\ \E r \in conversations_by_user : r.user_id # scan.target

====
